---- MODULE Spec2Model ----
(***************************************************************************)
(* A model of the blog application in src/api/main.py: the users,          *)
(* blog_posts and comments tables, the flask-login session of each         *)
(* browser, and one action per request handler.                            *)
(*                                                                         *)
(* register() is modelled in two steps (the existence query of line 124,   *)
(* then the insert/commit of lines 134-137) because the server handles     *)
(* requests of different browsers concurrently and nothing makes the two   *)
(* statements one transaction.  Every other handler reads current_user     *)
(* once (flask-login caches it for the request) and issues its writes in   *)
(* one commit, so it is one action.                                        *)
(***************************************************************************)
EXTENDS Integers, Sequences, FiniteSets

VARIABLES users, posts, next_post_id, comments, uid, reg, resp

vars == <<users, posts, next_post_id, comments, uid, reg, resp>>
tables == <<users, posts, next_post_id, comments>>

(***************************************************************************)
(* Bounds and input alphabets.                                             *)
(***************************************************************************)
\* ids the three tables' sequences may issue in total
MaxRows == 3

Sessions == {"browserA", "browserB"}
Emails == {"a@x.com", "b@x.com"}
Passwords == {"pw123", "letmein"}
Salts == {1, 2}
Titles == {"Hello", "Edited"}
PostIds == 1..MaxRows

\* the passwords and salts the whole-application specification registers with
DefaultPasswords == {"pw123"}
DefaultSalts == {1}

\* the administrator id @admin_only compares current_user.id with
ADMIN_ID == 1

\* SQL NULL in an integer column, and the id of no row
NULL == 0
\* Python None where a BlogPost row is expected
NoPost == [id |-> NULL, title |-> "", author_id |-> NULL]
\* no register request in flight
\* (registered_with is history, not a column: the plaintext of the form)
NoReq ==
    [email |-> "", password |-> [salt |-> 0, digest |-> <<>>],
     registered_with |-> ""]

(***************************************************************************)
(* Credential service (werkzeug.security).                                 *)
(***************************************************************************)
\* the salted digest: collision free, so it is the pair it was made from
pbkdf2_hmac(salt, password) == <<salt, password>>

generate_password_hash(password, salt) ==
    [salt |-> salt, digest |-> pbkdf2_hmac(salt, password)]

check_password_hash(pwhash, password) ==
    pwhash.digest = pbkdf2_hmac(pwhash.salt, password)

(***************************************************************************)
(* Persistence layer.                                                      *)
(***************************************************************************)
UserIds == 1..Len(users)
CommentIds == 1..Len(comments)
PostIdsStored == {p.id : p \in posts}

\* User.query.filter_by(email = e): the ids of the matching rows
users_by_email(e) == {u \in UserIds : users[u].email = e}

\* BlogPost.query.filter_by(id = post_id).first() / BlogPost.query.get(post_id)
get_post(post_id) ==
    IF post_id \in PostIdsStored
    THEN CHOOSE p \in posts : p.id = post_id
    ELSE NoPost

\* ids issued so far by the three sequences, and those reserved by the
\* register requests in flight
rows_issued == Len(users) + (next_post_id - 1) + Len(comments)
rows_pending == Cardinality({s \in Sessions : reg[s] # NoReq})
may_insert == rows_issued + rows_pending < MaxRows

(***************************************************************************)
(* Session / identity manager (flask-login).                               *)
(***************************************************************************)
\* load_user with the filter on id lost: User.query.first()
load_user_first(user_id) == IF UserIds # {} THEN 1 ELSE NULL

\* load_user: the row with that id, None (NULL) when there is none
load_user(user_id) == IF user_id \in UserIds THEN user_id ELSE NULL

\* current_user.id; NULL stands for the anonymous user
current_user(s) == IF uid[s] = NULL THEN NULL ELSE load_user(uid[s])

\* a comment handler that never asks who is logged in
is_authenticated_always(s) == TRUE

is_authenticated(s) == current_user(s) # NULL

\* @login_required lets the request through
login_required(s) == is_authenticated(s)

\* @admin_only comparing against nothing
admin_only_open(s) == TRUE

\* @admin_only lets the request through
admin_only(s) == current_user(s) = ADMIN_ID

\* the decorator stack with @admin_only left off
guard_login_only(s) == IF ~login_required(s) THEN 401 ELSE 200

\* the outcome of the decorator stack @login_required @admin_only:
\* LoginManager has no login_view, so unauthorized() aborts with 401
guard(s) ==
    IF ~login_required(s) THEN 401
    ELSE IF ~admin_only(s) THEN 403
    ELSE 200

(***************************************************************************)
(* Responses.                                                              *)
(***************************************************************************)
Response(op, s, status, location, flash, ran, submit, post_id, post, all_posts) ==
    [op |-> op, identity |-> current_user(s), status |-> status,
     location |-> location, flash |-> flash, ran |-> ran, submit |-> submit,
     post_id |-> post_id, post |-> post, all_posts |-> all_posts]

Plain(op, s, status, location, flash, ran, submit) ==
    Response(op, s, status, location, flash, ran, submit, NULL, NoPost, {})

NoResponse ==
    [op |-> "", identity |-> NULL, status |-> 0, location |-> "", flash |-> "",
     ran |-> FALSE, submit |-> FALSE, post_id |-> NULL, post |-> NoPost,
     all_posts |-> {}]

\* post.html dereferences post.author.name: rendering None is a server fault
render_post_template(post) == IF post = NoPost THEN 500 ELSE 200

Init ==
    /\ users = <<>>
    /\ posts = {}
    /\ next_post_id = 1
    /\ comments = <<>>
    /\ uid = [s \in Sessions |-> NULL]
    /\ reg = [s \in Sessions |-> NoReq]
    /\ resp = NoResponse

(***************************************************************************)
(* Request handlers.                                                       *)
(***************************************************************************)
get_all_posts(s) ==
    /\ reg[s] = NoReq
    /\ resp' = Response("get_all_posts", s, 200, "", "", TRUE, FALSE,
                        NULL, NoPost, posts)
    /\ UNCHANGED <<tables, uid, reg>>

\* GET /register, or a submission the form rejects
register_form(s) ==
    /\ reg[s] = NoReq
    /\ resp' = Plain("register", s, 200, "", "", TRUE, FALSE)
    /\ UNCHANGED <<tables, uid, reg>>

\* lines 121-126: hash the password, then look the email up
register_lookup(s, email, password, salt) ==
    /\ reg[s] = NoReq
    /\ IF users_by_email(email) # {}
       THEN /\ resp' = Plain("register", s, 302, "login",
                   "You've already signed up with that email, log in instead!",
                   TRUE, TRUE)
            /\ UNCHANGED reg
       ELSE /\ may_insert
            /\ reg' = [reg EXCEPT ![s] =
                   [email |-> email,
                    password |-> generate_password_hash(password, salt),
                    registered_with |-> password]]
            /\ resp' = NoResponse
    /\ UNCHANGED <<tables, uid>>

\* lines 128-138: insert the user, commit, log the new user in
register_commit(s) ==
    /\ reg[s] # NoReq
    /\ users' = Append(users, reg[s])
    /\ uid' = [uid EXCEPT ![s] = Len(users) + 1]
    /\ reg' = [reg EXCEPT ![s] = NoReq]
    /\ resp' = Plain("register", s, 302, "get_all_posts", "", TRUE, TRUE)
    /\ UNCHANGED <<posts, next_post_id, comments>>

\* GET /login, or a submission the form rejects
login_form(s) ==
    /\ reg[s] = NoReq
    /\ resp' = Plain("login", s, 200, "", "", TRUE, FALSE)
    /\ UNCHANGED <<tables, uid, reg>>

\* lines 147-158; .first() without ORDER BY returns any matching row
login(s, email, password) ==
    /\ reg[s] = NoReq
    /\ IF users_by_email(email) = {}
       THEN /\ resp' = Plain("login", s, 302, "login",
                   "That email does not exist, please try again.", TRUE, TRUE)
            /\ UNCHANGED uid
       ELSE \E user \in users_by_email(email) :
               IF check_password_hash(users[user].password, password)
               THEN /\ uid' = [uid EXCEPT ![s] = user]
                    /\ resp' = Plain("login", s, 302, "get_all_posts", "",
                                     TRUE, TRUE)
               ELSE /\ resp' = Plain("login", s, 302, "login",
                           "Password incorrect, please try again.", TRUE, TRUE)
                    /\ UNCHANGED uid
    /\ UNCHANGED <<tables, reg>>

logout(s) ==
    /\ reg[s] = NoReq
    /\ uid' = [uid EXCEPT ![s] = NULL]
    /\ resp' = Plain("logout", s, 302, "get_all_posts", "", TRUE, FALSE)
    /\ UNCHANGED <<tables, reg>>

\* GET /post/<id>, or a comment submission the form rejects
show_post(s, post_id) ==
    /\ reg[s] = NoReq
    /\ LET requested_post == get_post(post_id) IN
       resp' = Response("show_post", s, render_post_template(requested_post),
                        "", "", TRUE, FALSE, post_id, requested_post, {})
    /\ UNCHANGED <<tables, uid, reg>>

\* POST /post/<id> with a valid comment form (lines 176-190)
add_comment(s, post_id) ==
    /\ reg[s] = NoReq
    /\ LET requested_post == get_post(post_id) IN
       IF ~is_authenticated(s)
       THEN /\ resp' = Response("show_post", s, 302, "login",
                   "you need to log in to comment!", TRUE, TRUE,
                   post_id, NoPost, {})
            /\ UNCHANGED comments
       ELSE /\ may_insert
            /\ comments' = Append(comments,
                   [author_id |-> current_user(s),
                    post_id |-> requested_post.id,
                    session_user_id |-> uid[s]])
            /\ resp' = Response("show_post", s,
                   render_post_template(requested_post), "", "", TRUE, TRUE,
                   post_id, requested_post, {})
    /\ UNCHANGED <<users, posts, next_post_id, uid, reg>>

\* /new-post (lines 193-213)
add_new_post(s, title, submit) ==
    /\ reg[s] = NoReq
    /\ IF guard(s) # 200
       THEN /\ resp' = Plain("add_new_post", s, guard(s), "", "", FALSE, submit)
            /\ UNCHANGED <<posts, next_post_id>>
       ELSE IF submit
       THEN /\ may_insert
            /\ posts' = posts \cup
                   {[id |-> next_post_id, title |-> title,
                     author_id |-> current_user(s)]}
            /\ next_post_id' = next_post_id + 1
            /\ resp' = Plain("add_new_post", s, 302, "get_all_posts", "",
                             TRUE, submit)
       ELSE /\ resp' = Plain("add_new_post", s, 200, "", "", TRUE, submit)
            /\ UNCHANGED <<posts, next_post_id>>
    /\ UNCHANGED <<users, comments, uid, reg>>

\* /edit-post/<id> (lines 216-239)
edit_post(s, post_id, title, submit) ==
    /\ reg[s] = NoReq
    /\ LET post == get_post(post_id) IN
       IF guard(s) # 200
       THEN /\ resp' = Response("edit_post", s, guard(s), "", "", FALSE,
                                submit, post_id, NoPost, {})
            /\ UNCHANGED posts
       ELSE IF post = NoPost
       THEN /\ resp' = Response("edit_post", s, 500, "", "", TRUE, submit,
                                post_id, NoPost, {})
            /\ UNCHANGED posts
       ELSE IF submit
       THEN /\ posts' = (posts \ {post}) \cup
                   {[post EXCEPT !.title = title,
                                 !.author_id = current_user(s)]}
            /\ resp' = Response("edit_post", s, 302, "show_post", "", TRUE,
                                submit, post_id, post, {})
       ELSE /\ resp' = Response("edit_post", s, 200, "", "", TRUE, submit,
                                post_id, post, {})
            /\ UNCHANGED posts
    /\ UNCHANGED <<users, next_post_id, comments, uid, reg>>

\* the unit of work of db.session.delete(post): the comments relationship has
\* no delete cascade, so the children's post_id is set to NULL
nullify_comments(post_id) ==
    [c \in CommentIds |->
        IF comments[c].post_id = post_id
        THEN [comments[c] EXCEPT !.post_id = NULL]
        ELSE comments[c]]

\* delete_post with the commit of line 249 left out: the row stays
delete_post_uncommitted(s, post_id) ==
    /\ reg[s] = NoReq
    /\ LET post_to_delete == get_post(post_id) IN
       IF guard(s) # 200
       THEN resp' = Response("delete_post", s, guard(s), "", "", FALSE,
                             FALSE, post_id, NoPost, {})
       ELSE IF post_to_delete = NoPost
       THEN resp' = Response("delete_post", s, 500, "", "", TRUE, FALSE,
                             post_id, NoPost, {})
       ELSE resp' = Response("delete_post", s, 302, "get_all_posts", "",
                             TRUE, FALSE, post_id, NoPost, {})
    /\ UNCHANGED <<tables, uid, reg>>

\* /delete/<id> (lines 242-251)
delete_post(s, post_id) ==
    /\ reg[s] = NoReq
    /\ LET post_to_delete == get_post(post_id) IN
       IF guard(s) # 200
       THEN /\ resp' = Response("delete_post", s, guard(s), "", "", FALSE,
                                FALSE, post_id, NoPost, {})
            /\ UNCHANGED <<posts, comments>>
       ELSE IF post_to_delete = NoPost
       THEN /\ resp' = Response("delete_post", s, 500, "", "", TRUE, FALSE,
                                post_id, NoPost, {})
            /\ UNCHANGED <<posts, comments>>
       ELSE /\ posts' = posts \ {post_to_delete}
            /\ comments' = nullify_comments(post_id)
            /\ resp' = Response("delete_post", s, 302, "get_all_posts", "",
                                TRUE, FALSE, post_id, NoPost, {})
    /\ UNCHANGED <<users, next_post_id, uid, reg>>

(***************************************************************************)
(* Specifications.                                                         *)
(***************************************************************************)
AccountRequests(s, passwords, salts) ==
    \/ register_form(s)
    \/ \E e \in Emails, p \in passwords, salt \in salts :
          register_lookup(s, e, p, salt)
    \/ register_commit(s)
    \/ login_form(s)
    \/ \E e \in Emails, p \in Passwords : login(s, e, p)
    \/ logout(s)

BlogRequests(s) ==
    \/ get_all_posts(s)
    \/ \E i \in PostIds : show_post(s, i)
    \/ \E i \in PostIds : add_comment(s, i)
    \/ \E t \in Titles, submit \in BOOLEAN : add_new_post(s, t, submit)
    \/ \E i \in PostIds, t \in Titles, submit \in BOOLEAN :
          edit_post(s, i, t, submit)
    \/ \E i \in PostIds : delete_post(s, i)

\* the whole application; every account registers with the same password
Next ==
    \E s \in Sessions :
        \/ AccountRequests(s, DefaultPasswords, DefaultSalts)
        \/ BlogRequests(s)

Spec == Init /\ [][Next]_vars

\* the account handlers alone, over every password and salt
NextAccounts ==
    \E s \in Sessions :
        \/ AccountRequests(s, Passwords, Salts)
        \/ get_all_posts(s)

SpecAccounts == Init /\ [][NextAccounts]_vars

(***************************************************************************)
(* Properties.                                                             *)
(***************************************************************************)
AdminOps == {"add_new_post", "edit_post", "delete_post"}
Failures == {401, 403, 404, 500}
DeletedPostIds == {i \in 1..(next_post_id - 1) : i \notin PostIdsStored}

\* C1: a create/edit/delete-post request of an authenticated identity other
\* than id 1 is answered 403, the handler body does not run and no table
\* changes; and every step that changes the posts table is a request whose
\* identity is id 1.
C1_NonAdminForbidden ==
    /\ [][(resp'.op \in AdminOps /\ resp'.identity \notin {NULL, ADMIN_ID})
            => /\ resp'.status = 403
               /\ ~resp'.ran
               /\ UNCHANGED <<users, posts, comments>>]_vars
    /\ [][posts' # posts => (resp'.op \in AdminOps /\ resp'.identity = ADMIN_ID)]_vars

C1_Witness ==
    /\ resp.op = "add_new_post"
    /\ resp.submit
    /\ resp.identity = 2
    /\ resp.status = 403

\* C2: a create/edit/delete-post request with no authenticated session is
\* answered with a redirect to login, and the handler body does not run.
C2_AnonymousRedirected ==
    (resp.op \in AdminOps /\ resp.identity = NULL)
        => /\ resp.status = 302
           /\ resp.location = "login"
           /\ ~resp.ran

\* C3: no two User rows have the same email.
C3_UniqueEmail ==
    \A u, v \in UserIds : users[u].email = users[v].email => u = v

\* C4 as stated: once a session resolves to a user, it resolves to that user
\* after every step that is not a logout of that session.
C4_UntilLogout ==
    [][\A s \in Sessions :
          (current_user(s) # NULL /\ current_user(s)' # current_user(s))
              => logout(s)]_vars

\* C4 as amended: a registration logs the session in as the row it inserted,
\* a successful login as a row with the submitted email; and the identity of
\* a logged-in session changes only by a logout, a successful login or a
\* registration of that session.
C4_UntilLogoutOrLogin ==
    /\ [][resp'.op = "register"
            => \A s \in Sessions :
                  register_commit(s)
                      => /\ current_user(s)' = Len(users) + 1
                         /\ users'[current_user(s)'].email = reg[s].email]_vars
    /\ [][(resp'.op = "login" /\ resp'.location = "get_all_posts")
            => \A s \in Sessions : \A e \in Emails, p \in Passwords :
                  login(s, e, p)
                      => /\ current_user(s)' \in UserIds
                         /\ users[current_user(s)'].email = e]_vars
    /\ [][uid' # uid
            => \A s \in Sessions :
                  (current_user(s) # NULL /\ current_user(s)' # current_user(s))
                      => \/ logout(s)
                         \/ register_commit(s)
                         \/ \E e \in Emails, p \in Passwords :
                               login(s, e, p)]_vars

C4_Witness ==
    \E s, t \in Sessions :
        /\ s # t
        /\ current_user(s) = 2
        /\ current_user(t) = NULL
        /\ resp.op = "logout"
        /\ resp.identity = 1

\* C5: every Comment names an existing User and an existing Post, and every
\* Post names an existing User.
C5_ReferentialIntegrity ==
    /\ \A c \in CommentIds :
          /\ comments[c].author_id \in UserIds
          /\ comments[c].post_id \in PostIdsStored
    /\ \A p \in posts : p.author_id \in UserIds

\* C6: a completed delete leaves the post's id unstored, an id once deleted
\* stays deleted, no list-posts result holds a post with a deleted id and a
\* show-post request for a deleted id is handed no post.
C6_DeletedStaysGone ==
    /\ [][(resp'.op = "delete_post" /\ resp'.status = 302)
            => (resp'.post_id \in DeletedPostIds' /\
                resp'.post_id \in PostIdsStored)]_vars
    /\ [][DeletedPostIds \subseteq DeletedPostIds']_vars
    /\ [](resp.op = "get_all_posts"
            => \A p \in resp.all_posts : p.id \notin DeletedPostIds)
    /\ []((resp.op = "show_post" /\ resp.post_id \in DeletedPostIds)
            => resp.post = NoPost)

C6_Witness ==
    /\ resp.op = "show_post"
    /\ resp.post_id \in DeletedPostIds

\* C7: a valid comment submission without an authenticated session is
\* redirected to login and leaves the comments unchanged; every Comment row
\* was inserted in a session logged in as the row's author.
C7_CommentsNeedLogin ==
    /\ [][(resp'.op = "show_post" /\ resp'.submit /\ resp'.identity = NULL)
            => /\ resp'.status = 302
               /\ resp'.location = "login"
               /\ comments' = comments]_vars
    /\ [](\A c \in CommentIds :
            /\ comments[c].author_id \in UserIds
            /\ comments[c].author_id = comments[c].session_user_id)

C7_Witness ==
    /\ resp.op = "show_post"
    /\ resp.submit
    /\ resp.identity = NULL
    /\ comments # <<>>

\* C8: a valid login with email e and password p logs the session in as a
\* user with email e who registered with p when there is one; otherwise the
\* session and the tables stay as they were and the answer redirects to login.
C8_LoginIffCredentials ==
    [][\A s \in Sessions : \A e \in Emails, p \in Passwords :
          login(s, e, p)
              => LET match == {u \in UserIds :
                                  /\ users[u].email = e
                                  /\ users[u].registered_with = p}
                 IN  IF match # {}
                     THEN uid'[s] \in match
                     ELSE /\ uid'[s] = uid[s]
                          /\ UNCHANGED tables
                          /\ resp'.status = 302
                          /\ resp'.location = "login"]_vars

\* C9: a show-post, edit-post or delete-post request for an id that names no
\* Post fails (or sends an anonymous commenter to login) and changes no table.
C9_AbsentPostNoChange ==
    [][(resp'.op \in {"show_post", "edit_post", "delete_post"}
            /\ resp'.post_id \notin PostIdsStored)
          => /\ UNCHANGED <<users, posts, comments>>
             /\ \/ resp'.status \in Failures
                \/ resp'.location = "login"]_vars

\* C10: every Post's author is the User with id 1, and an edit leaves the
\* author of the post it edits as it was.
C10_AuthorIsAdmin ==
    /\ [](\A p \in posts : p.author_id = ADMIN_ID)
    /\ [][\A p \in posts, q \in posts' : p.id = q.id
            => q.author_id = p.author_id]_vars

C10_Witness ==
    /\ resp.op = "edit_post"
    /\ resp.status = 302
    /\ \E p \in posts : p.title = "Edited"

====
